---------------------------- MODULE Spec2Model ----------------------------
(***************************************************************************)
(* Model of the jd_dashboard repository:                                   *)
(*   - the Tabs component in its two variants, the shared-context one      *)
(*     (src/src/components/ui/tabs.jsx) and the prop-threading one         *)
(*     (src/src/src/components/ui/tabs.jsx lines 3-44), mounted side by    *)
(*     side on the same component tree and driven by the same clicks;      *)
(*   - the Dashboard component: its data loading (loadData) and the tab    *)
(*     group it renders once loading is over;                              *)
(*   - the helper functions percentage and aggregateMonthly.               *)
(***************************************************************************)
EXTENDS Integers, Sequences, FiniteSets

VARIABLES
    host,        \* who renders <Tabs>: "Dashboard", a "Standalone" caller, or "none"
    tree,        \* the props and children a <Tabs> element is given
    fetchState,  \* per fakeFetch key: "notstarted", "pending" (timer armed), "fulfilled"
                 \* ("rejected" is a state of a promise that fakeFetch never produces)
    orders,      \* Dashboard state hook
    inventory,   \* Dashboard state hook
    returns,     \* Dashboard state hook
    loading,     \* Dashboard state hook
    ctxActive,   \* activeTab of the shared-context Tabs
    propActive,  \* activeTab of the prop-threading Tabs
    lastClick,   \* value of the trigger clicked last, NoClick before any click
    clickError,  \* whether the last click's onClick threw, per variant
    tz,          \* side of UTC of the runtime's local time zone
    call         \* the helper call in progress: function, arguments, result

vars == <<host, tree, fetchState, orders, inventory, returns, loading,
          ctxActive, propActive, lastClick, clickError, tz, call>>

uiVars == <<host, tree, fetchState, orders, inventory, returns, loading,
            ctxActive, propActive, lastClick, clickError>>

---------------------------------------------------------------------------
(* Values *)

Undefined == "<undefined>"     \* the JavaScript value undefined
Unmounted == "<unmounted>"     \* no Tabs instance exists, so no useState cell
NoClick   == "<no click>"

\* The four identifiers the Dashboard gives to its triggers and panels.
DashboardIds == {"orders", "inventory", "returns", "analytics"}

\* An identifier a caller may give to a trigger without giving it to a panel.
OrphanId == "settings"

\* The Dashboard's tree with a fifth trigger for which no panel was written.
M_DashboardTree_orphanTrigger ==
    [ defaultValue   |-> "orders",
      triggers       |-> DashboardIds \cup {OrphanId},
      panels         |-> DashboardIds,
      triggersNested |-> TRUE,
      panelsNested   |-> FALSE ]

\* <Tabs defaultValue="orders"> with four triggers inside <TabsList> and four
\* <TabsContent> as direct children.
DashboardTree ==
    [ defaultValue   |-> "orders",
      triggers       |-> DashboardIds,
      panels         |-> DashboardIds,
      triggersNested |-> TRUE,
      panelsNested   |-> FALSE ]

\* The compositions a standalone caller of Tabs may write: any defaultValue
\* (or none), triggers and panels either direct children of Tabs or wrapped in
\* another element, and one trigger whose value no panel carries.
StandaloneTrees ==
    [ defaultValue   : DashboardIds \cup {OrphanId, Undefined},
      triggers       : {DashboardIds \cup {OrphanId}},
      panels         : {DashboardIds},
      triggersNested : BOOLEAN,
      panelsNested   : BOOLEAN ]

FetchKeys == {"/orders", "/inventory", "/returns"}

\* What fakeFetch resolves to for each key.
fakeFetch(key) ==
    CASE key = "/orders" ->
           << [id |-> "1001", customer |-> "GANKIMA GOLI", status |-> "Pending",
               fulfillmentHrs |-> 0, date |-> "2025-04-20"] >>
      [] key = "/inventory" ->
           << [sku |-> "SKU-001", name |-> "Wireless Earbuds", stock |-> 100,
               channel |-> "JINGDONG"] >>
      [] key = "/returns" ->
           << [id |-> "R-01", customer |-> "GANKIMA GOLI", reason |-> "Defective",
               status |-> "Received", date |-> "2025-04-22", rate |-> 5] >>
      [] OTHER -> << >>

NoCall == [fn |-> "none"]

TimeZones == {"behindUTC", "atOrAheadOfUTC"}

---------------------------------------------------------------------------
(* Tabs, shared-context variant *)

Mounted == ctxActive # Unmounted

\* TabsContent: renders its children unless value !== activeTab.
TabsContentCtx(value) == Mounted /\ ~(value # ctxActive)

\* TabsTrigger: carries the selected styling when activeTab === value.
TabsTriggerCtxSelected(value) == Mounted /\ ctxActive = value

\* A click on the trigger that is active already clears the selection.
M_SelectCtx_toggle(value) == IF ctxActive = value THEN Undefined ELSE value

\* A value no panel carries is ignored.
M_SelectCtx_validated(value) == IF value \in tree.panels THEN value ELSE ctxActive

\* onClick of a TabsTrigger: setActiveTab(value); the context always holds the
\* setter, wherever the trigger sits below Tabs.
SelectCtx(value) == value

CtxRendered == {v \in tree.panels : TabsContentCtx(v)}
CtxSelected == {v \in tree.triggers : TabsTriggerCtxSelected(v)}

---------------------------------------------------------------------------
(* Tabs, prop-threading variant *)

\* Tabs clones its direct children with {activeTab, setActiveTab}. TabsList
\* takes only children and className and forwards nothing, so an element
\* nested below a direct child sees both props as undefined.
ClonedProps(nested) ==
    IF nested
    THEN [activeTab |-> Undefined, setActiveTab |-> Undefined]
    ELSE [activeTab |-> propActive, setActiveTab |-> "setActiveTab"]

TabsContentProp(value) ==
    Mounted /\ ~(value # ClonedProps(tree.panelsNested).activeTab)

TabsTriggerPropSelected(value) ==
    Mounted /\ ClonedProps(tree.triggersNested).activeTab = value

\* onClick of a TabsTrigger: setActiveTab(value). Calling undefined throws a
\* TypeError inside the event handler and leaves the state as it was.
PropClickThrows == ClonedProps(tree.triggersNested).setActiveTab = Undefined

SelectProp(value) == IF PropClickThrows THEN propActive ELSE value

PropRendered == {v \in tree.panels : TabsContentProp(v)}
PropSelected == {v \in tree.triggers : TabsTriggerPropSelected(v)}

---------------------------------------------------------------------------
(* Initial states *)

NoDashboard ==
    /\ fetchState = [k \in FetchKeys |-> "notstarted"]
    /\ orders = << >>
    /\ inventory = << >>
    /\ returns = << >>

\* Dashboard after its first render: the four state hooks at their initial
\* values, the effect not yet run, the loading branch rendered (no Tabs).
InitDashboard ==
    /\ host = "Dashboard"
    /\ tree = DashboardTree
    /\ NoDashboard
    /\ loading = TRUE
    /\ ctxActive = Unmounted
    /\ propActive = Unmounted

\* A caller that renders Tabs at once: useState(defaultValue).
InitStandalone ==
    /\ host = "Standalone"
    /\ tree \in StandaloneTrees
    /\ NoDashboard
    /\ loading = FALSE
    /\ ctxActive = tree.defaultValue
    /\ propActive = tree.defaultValue

Init ==
    /\ InitDashboard \/ InitStandalone
    /\ lastClick = NoClick
    /\ clickError = [ctx |-> FALSE, prop |-> FALSE]
    /\ tz \in TimeZones
    /\ call = NoCall

---------------------------------------------------------------------------
(* Dashboard: loadData *)

\* useEffect(() => { loadData() }, []): the three fakeFetch calls are made in
\* one go, each arming its 200 ms timer, and loadData awaits Promise.all.
LoadDataStart ==
    /\ host = "Dashboard"
    /\ \A k \in FetchKeys : fetchState[k] = "notstarted"
    /\ fetchState' = [k \in FetchKeys |-> "pending"]
    /\ UNCHANGED <<host, tree, orders, inventory, returns, loading,
                   ctxActive, propActive, lastClick, clickError, tz, call>>

\* The timer of one fakeFetch fires and its promise is fulfilled.
TimerFire(k) ==
    /\ fetchState[k] = "pending"
    /\ fetchState' = [fetchState EXCEPT ![k] = "fulfilled"]
    /\ UNCHANGED <<host, tree, orders, inventory, returns, loading,
                   ctxActive, propActive, lastClick, clickError, tz, call>>

\* Promise.all([...]): rejected as soon as one promise is, fulfilled once all
\* are, pending otherwise.
PromiseAll ==
    IF \E k \in FetchKeys : fetchState[k] = "rejected" THEN "rejected"
    ELSE IF \A k \in FetchKeys : fetchState[k] = "fulfilled" THEN "fulfilled"
    ELSE "pending"

\* loadData without its finally block: the loading flag is never cleared.
M_LoadDataResume_noFinally ==
    /\ host = "Dashboard"
    /\ loading
    /\ PromiseAll \in {"fulfilled", "rejected"}
    /\ IF PromiseAll = "fulfilled"
       THEN /\ orders' = fakeFetch("/orders")
            /\ inventory' = fakeFetch("/inventory")
            /\ returns' = fakeFetch("/returns")
       ELSE UNCHANGED <<orders, inventory, returns>>
    /\ UNCHANGED <<host, tree, fetchState, loading, ctxActive, propActive,
                   lastClick, clickError, tz, call>>

\* Promise.all has settled: the rest of loadData runs in one synchronous
\* block, the three setters of the try block (skipped when the await throws)
\* and setLoading(false) of the finally block, and the Dashboard re-renders,
\* now mounting Tabs with useState(defaultValue).
LoadDataResume ==
    /\ host = "Dashboard"
    /\ loading
    /\ PromiseAll \in {"fulfilled", "rejected"}
    /\ IF PromiseAll = "fulfilled"
       THEN /\ orders' = fakeFetch("/orders")
            /\ inventory' = fakeFetch("/inventory")
            /\ returns' = fakeFetch("/returns")
       ELSE UNCHANGED <<orders, inventory, returns>>
    /\ loading' = FALSE
    /\ ctxActive' = tree.defaultValue
    /\ propActive' = tree.defaultValue
    /\ UNCHANGED <<host, tree, fetchState, lastClick, clickError, tz, call>>

---------------------------------------------------------------------------
(* A click on the trigger carrying `value`, delivered to both variants *)

Click(value) ==
    /\ Mounted
    /\ value \in tree.triggers
    /\ ctxActive' = SelectCtx(value)
    /\ propActive' = SelectProp(value)
    /\ lastClick' = value
    /\ clickError' = [ctx |-> FALSE, prop |-> PropClickThrows]
    /\ UNCHANGED <<host, tree, fetchState, orders, inventory, returns,
                   loading, tz, call>>

---------------------------------------------------------------------------
(* Helper functions *)

MaxLen   == 3   \* longest record sequence handed to aggregateMonthly
MaxPart  == 3   \* largest `part` handed to percentage
MaxTotal == 3   \* largest `total` handed to percentage

\* A JavaScript number with at most one decimal, and what toFixed(1) returns:
\* a string. Both carry the value in tenths; NaN has no tenths.
Number(n)      == [type |-> "number", tenths |-> 10 * n, text |-> ""]
DecimalStr(t)  == [type |-> "string", tenths |-> t, text |-> "decimal"]
NaNStr         == [type |-> "string", tenths |-> 0, text |-> "NaN"]
InfinityStr    == [type |-> "string", tenths |-> 0, text |-> "Infinity"]

\* ((num/den)*100).toFixed(1) for num, den >= 0: the nearest tenth, the larger
\* one on a tie; 0/0 is NaN and n/0 is Infinity.
toFixed1Percent(num, den) ==
    IF den = 0
    THEN (IF num = 0 THEN NaNStr ELSE InfinityStr)
    ELSE DecimalStr((2 * 1000 * num + den) \div (2 * den))

\* percentage with the guard on total left out.
M_percentage_unguarded(part, total) == toFixed1Percent(part, total)

\* function percentage(part,total){return total===0?0:((part/total)*100).toFixed(1);}
percentage(part, total) ==
    IF total = 0 THEN Number(0) ELSE toFixed1Percent(part, total)

\* The analytics object the Dashboard computes on every render.
analytics ==
    [ orderVolume |-> Len(orders),
      returnRate  |-> percentage(Len(returns), Len(orders)) ]

\* Date strings a record may carry. A date-only ISO string is parsed as
\* midnight UTC; anything new Date cannot parse gives an Invalid Date.
Dates == {"2025-03-15", "2025-01-20", "2025-02-01", "not-a-date"}

DateParse(d) ==
    CASE d = "2025-03-15" -> [valid |-> TRUE,  month |-> 3, day |-> 15]
      [] d = "2025-01-20" -> [valid |-> TRUE,  month |-> 1, day |-> 20]
      [] d = "2025-02-01" -> [valid |-> TRUE,  month |-> 2, day |-> 1]
      [] d = "2025-04-20" -> [valid |-> TRUE,  month |-> 4, day |-> 20]
      [] d = "2025-04-22" -> [valid |-> TRUE,  month |-> 4, day |-> 22]
      [] OTHER            -> [valid |-> FALSE, month |-> 0, day |-> 0]

\* The short month names toLocaleString gives in an English default locale.
ShortMonth ==
    << "Jan", "Feb", "Mar", "Apr", "May", "Jun",
       "Jul", "Aug", "Sep", "Oct", "Nov", "Dec" >>

InvalidDate == "Invalid Date"

\* The month of midnight UTC of the parsed day, read in local time: behind
\* UTC it is still the evening before, which for the first of a month is the
\* month before.
LocalMonth(p) ==
    IF tz = "behindUTC" /\ p.day = 1
    THEN (IF p.month = 1 THEN 12 ELSE p.month - 1)
    ELSE p.month

\* An unparsable date read as the epoch instead of as an Invalid Date.
M_toLocaleMonth_epoch(d) ==
    LET p == DateParse(d) IN
    IF p.valid THEN ShortMonth[LocalMonth(p)] ELSE ShortMonth[1]

\* new Date(d).toLocaleString('default',{month:'short'})
toLocaleMonth(d) ==
    LET p == DateParse(d) IN
    IF p.valid THEN ShortMonth[LocalMonth(p)] ELSE InvalidDate

\* Records handed to aggregateMonthly: a date and an optional numeric rate.
Records == [date : Dates] \cup [date : Dates, rate : {0, 5, 8}]

\* if(o.rate): the field is there and is not 0.
Truthy(o) == "rate" \in DOMAIN o /\ o.rate # 0

\* `map` is the object the reducer fills; its own string keys are kept in
\* insertion order, so it is a sequence of buckets with distinct month keys.
HasKey(map, month) == \E i \in DOMAIN map : map[i].month = month

\* The first record of a month decides its rate for good.
M_step_firstWriteWins(map, o) ==
    LET month == toLocaleMonth(o.date)
        m1 == IF ~HasKey(map, month)
              THEN Append(map, [month |-> month, count |-> 0, rate |-> 0])
              ELSE map
    IN [i \in DOMAIN m1 |->
          IF m1[i].month = month
          THEN [m1[i] EXCEPT !.count = @ + 1,
                             !.rate = IF Truthy(o) /\ @ = 0 THEN o.rate ELSE @]
          ELSE m1[i]]

\* A new bucket starts with the count of the record that creates it, and the
\* increment is then applied only to buckets that existed already.
M_step_countFromSecond(map, o) ==
    LET month == toLocaleMonth(o.date) IN
    IF ~HasKey(map, month)
    THEN Append(map, [month |-> month, count |-> 0,
                      rate |-> IF Truthy(o) THEN o.rate ELSE 0])
    ELSE [i \in DOMAIN map |->
            IF map[i].month = month
            THEN [map[i] EXCEPT !.count = @ + 1,
                                !.rate = IF Truthy(o) THEN o.rate ELSE @]
            ELSE map[i]]

\* The body of the forEach callback:
\*   if(!map[month]) map[month]={month,count:0,rate:0};
\*   map[month].count+=1; if(o.rate) map[month].rate=o.rate;
step(map, o) ==
    LET month == toLocaleMonth(o.date)
        m1 == IF ~HasKey(map, month)
              THEN Append(map, [month |-> month, count |-> 0, rate |-> 0])
              ELSE map
    IN [i \in DOMAIN m1 |->
          IF m1[i].month = month
          THEN [m1[i] EXCEPT !.count = @ + 1,
                             !.rate = IF Truthy(o) THEN o.rate ELSE @]
          ELSE m1[i]]

RECURSIVE forEach(_, _, _)
forEach(map, arr, i) ==
    IF i > Len(arr) THEN map ELSE forEach(step(map, arr[i]), arr, i + 1)

MonthNumber(label) ==
    IF \E m \in DOMAIN ShortMonth : ShortMonth[m] = label
    THEN CHOOSE m \in DOMAIN ShortMonth : ShortMonth[m] = label
    ELSE 0

\* The buckets sorted by calendar month.
M_ObjectValues_calendar(map) ==
    LET Rank(i) == Cardinality({j \in DOMAIN map :
                      MonthNumber(map[j].month) < MonthNumber(map[i].month)}) + 1
    IN [r \in DOMAIN map |-> map[CHOOSE i \in DOMAIN map : Rank(i) = r]]

\* Object.values(map): the values in the order of the keys, which for keys
\* that are not array indices is the order of insertion.
ObjectValues(map) == map

aggregateMonthly(arr) == ObjectValues(forEach(<< >>, arr, 1))

BoundedSeq(S, n) == UNION {[1..k -> S] : k \in 0..n}

\* Nothing is mounted: the helper functions are called on their own.
InitFunctions ==
    /\ host = "none"
    /\ tree = DashboardTree
    /\ NoDashboard
    /\ loading = FALSE
    /\ ctxActive = Unmounted
    /\ propActive = Unmounted
    /\ lastClick = NoClick
    /\ clickError = [ctx |-> FALSE, prop |-> FALSE]
    /\ tz \in TimeZones
    /\ call = NoCall

CallPercentage ==
    /\ call = NoCall
    /\ \E part \in 0..MaxPart, total \in 0..MaxTotal :
         call' = [fn |-> "percentage", part |-> part, total |-> total,
                  result |-> percentage(part, total)]
    /\ UNCHANGED <<uiVars, tz>>

CallAggregateMonthly ==
    /\ call = NoCall
    /\ \E arr \in BoundedSeq(Records, MaxLen) :
         call' = [fn |-> "aggregateMonthly", arr |-> arr,
                  result |-> aggregateMonthly(arr)]
    /\ UNCHANGED <<uiVars, tz>>

\* The caller takes the result; nothing is kept between calls.
Return ==
    /\ call # NoCall
    /\ call' = NoCall
    /\ UNCHANGED <<uiVars, tz>>

---------------------------------------------------------------------------
(* Specifications *)

Next ==
    \/ LoadDataStart
    \/ \E k \in FetchKeys : TimerFire(k)
    \/ LoadDataResume
    \/ \E v \in DashboardIds \cup {OrphanId} : Click(v)
    \/ CallPercentage
    \/ Return

Spec == Init /\ [][Next]_vars

\* Timers fire and the continuation of an awaited promise is run.
Fairness ==
    /\ WF_vars(LoadDataStart)
    /\ \A k \in FetchKeys : WF_vars(TimerFire(k))
    /\ WF_vars(LoadDataResume)

FairSpec == Spec /\ Fairness

NextFunctions == CallAggregateMonthly \/ Return

SpecFunctions == InitFunctions /\ [][NextFunctions]_vars


---------------------------------------------------------------------------
(* Tab selection store *)

\* C1: after any sequence of trigger clicks whose last one is select(x), the
\* TabsContent with value x renders its children and every other TabsContent
\* renders nothing; a select(x) that follows a select(x) changes nothing.
C1_LastSelectDecidesPanels ==
    /\ [](lastClick # NoClick =>
            \A y \in tree.panels \cup {lastClick} :
               TabsContentCtx(y) <=> (y = lastClick))
    /\ [][\A x \in tree.triggers :
            (lastClick = x /\ Click(x)) =>
               /\ ctxActive' = ctxActive
               /\ CtxRendered' = CtxRendered
               /\ CtxSelected' = CtxSelected]_vars

C1_Witness ==
    /\ host = "Standalone"
    /\ tree.defaultValue = "returns"
    /\ lastClick = "inventory"
    /\ CtxRendered = {"inventory"}

\* C2: on the Dashboard's tree (triggers inside a TabsList, panels direct
\* children of Tabs) the shared-context Tabs and the prop-threading Tabs show
\* the same thing after every step: the same active identifier, the same
\* rendered panels, the same selected trigger.
C2_VariantsEquivalent ==
    (host = "Dashboard" /\ Mounted) =>
        /\ ctxActive = propActive
        /\ CtxRendered = PropRendered
        /\ CtxSelected = PropSelected

\* C6: select(id) with an id that no panel carries raises no error, makes id
\* the active identifier and leaves every panel rendering nothing; a later
\* select of a known id renders that panel again.
C6_UnknownIdRendersNothing ==
    /\ (lastClick # NoClick /\ lastClick \notin tree.panels) =>
          /\ ~clickError.ctx
          /\ ctxActive = lastClick
          /\ CtxRendered = {}
    /\ lastClick \in tree.panels => CtxRendered = {lastClick}

C6_Witness ==
    /\ lastClick = OrphanId
    /\ tree.defaultValue = "orders"
    /\ ctxActive = OrphanId
    /\ CtxRendered = {}

\* C7: in the Dashboard's tab group the active identifier is, in every state
\* trigger clicks can reach, one that both a trigger and a panel carry, and
\* exactly one panel is rendered (with either variant of Tabs).
C7_DashboardActiveIsKnown ==
    (host = "Dashboard" /\ Mounted) =>
        /\ ctxActive \in tree.triggers \cap tree.panels
        /\ Cardinality(CtxRendered) = 1
        /\ propActive \in tree.triggers \cap tree.panels
        /\ Cardinality(PropRendered) = 1

C7_Witness ==
    /\ host = "Dashboard"
    /\ lastClick = "analytics"
    /\ CtxRendered = {"analytics"}

---------------------------------------------------------------------------
(* percentage *)

\* C9: percentage(part, total) is the number 0 for every part when total is
\* 0, so the Dashboard's return rate is 0 whenever its orders collection is
\* empty.
C9_ZeroTotalGivesZero ==
    /\ (call.fn = "percentage" /\ call.total = 0) => call.result = Number(0)
    /\ (host = "Dashboard" /\ Len(orders) = 0) => analytics.returnRate = Number(0)

C9_Witness ==
    /\ call.fn = "percentage"
    /\ call.total = 0
    /\ call.part = MaxPart
    /\ call.result = Number(0)
    /\ host = "Dashboard"
    /\ loading

---------------------------------------------------------------------------
(* Dashboard data loading *)

AllFulfilled == PromiseAll = "fulfilled"

AllSettled == PromiseAll \in {"fulfilled", "rejected"}

CollectionsUnset == orders = << >> /\ inventory = << >> /\ returns = << >>

CollectionsLoaded ==
    /\ orders = fakeFetch("/orders")
    /\ inventory = fakeFetch("/inventory")
    /\ returns = fakeFetch("/returns")

\* C10: in the Dashboard loading starts true; once the three fetches have all
\* resolved or one has rejected it eventually becomes false, and it never becomes true again; the
\* three collections are set all together and only when all three fetches
\* succeeded; while loading is true no Tabs is mounted and no tab can be
\* selected.
C10_LoadingLifecycle ==
    /\ (host = "Dashboard" => loading)
    /\ [](host = "Dashboard" =>
            /\ CollectionsUnset \/ (CollectionsLoaded /\ AllFulfilled)
            /\ loading => /\ ~Mounted
                          /\ lastClick = NoClick
                          /\ \A v \in tree.triggers : ~ENABLED Click(v))
    /\ [][(host = "Dashboard" /\ ~loading) => ~loading']_vars
    /\ ((host = "Dashboard" /\ AllSettled) ~> ~loading)

C10_Witness ==
    /\ host = "Dashboard"
    /\ ~loading
    /\ AllFulfilled
    /\ CollectionsLoaded
    /\ CtxRendered = {"orders"}

---------------------------------------------------------------------------
(* aggregateMonthly *)

\* The positions of the input whose record maps to month label `lab`.
Positions(arr, lab) == {i \in DOMAIN arr : toLocaleMonth(arr[i].date) = lab}

SetMax(S) == CHOOSE m \in S : \A n \in S : n <= m
SetMin(S) == CHOOSE m \in S : \A n \in S : m <= n

\* The rate a bucket must hold: that of the last record of its month with a
\* rate that is there and not 0, and 0 without such a record.
LastRate(arr, lab) ==
    LET I == {i \in Positions(arr, lab) : Truthy(arr[i])} IN
    IF I = {} THEN 0 ELSE arr[SetMax(I)].rate

RECURSIVE SumCounts(_, _)
SumCounts(buckets, n) ==
    IF n = 0 THEN 0 ELSE buckets[n].count + SumCounts(buckets, n - 1)

Labels(arr) == {toLocaleMonth(arr[i].date) : i \in DOMAIN arr}

\* C3: each bucket's rate is the rate of the last record, in input order, of
\* that bucket's month that carries a non-zero rate, and 0 when the month has
\* no such record.
C3_RateIsLastWrite ==
    call.fn = "aggregateMonthly" =>
        /\ Len(call.result) = Cardinality(Labels(call.arr))
        /\ \A j \in DOMAIN call.result :
              call.result[j].rate = LastRate(call.arr, call.result[j].month)

C3_Witness ==
    /\ call.fn = "aggregateMonthly"
    /\ call.arr = << [date |-> "2025-03-15", rate |-> 5],
                     [date |-> "2025-03-15", rate |-> 8],
                     [date |-> "2025-03-15", rate |-> 0] >>
    /\ call.result = << [month |-> "Mar", count |-> 3, rate |-> 8] >>

\* C4: there is exactly one bucket per distinct month label of the input and
\* none for any other label, each bucket's count is the number of records of
\* its label, and the counts add up to the length of the input.
C4_OneBucketPerLabel ==
    call.fn = "aggregateMonthly" =>
        /\ {call.result[j].month : j \in DOMAIN call.result} = Labels(call.arr)
        /\ \A j, k \in DOMAIN call.result :
              call.result[j].month = call.result[k].month => j = k
        /\ \A j \in DOMAIN call.result :
              call.result[j].count =
                 Cardinality(Positions(call.arr, call.result[j].month))
        /\ SumCounts(call.result, Len(call.result)) = Len(call.arr)

C4_Witness ==
    /\ call.fn = "aggregateMonthly"
    /\ Len(call.arr) = MaxLen
    /\ Len(call.result) = 2
    /\ call.result[1].count = 2
    /\ call.result[2].count = 1

\* C5: the buckets come in the order in which their labels first occur in the
\* input: bucket a precedes bucket b exactly when the first record labelled a
\* precedes the first record labelled b.
C5_FirstOccurrenceOrder ==
    call.fn = "aggregateMonthly" =>
        \A j, k \in DOMAIN call.result :
            (j < k) <=>
               (SetMin(Positions(call.arr, call.result[j].month))
                  < SetMin(Positions(call.arr, call.result[k].month)))

C5_Witness ==
    /\ call.fn = "aggregateMonthly"
    /\ call.arr = << [date |-> "2025-03-15"], [date |-> "2025-01-20"],
                     [date |-> "2025-03-15"] >>
    /\ call.result = << [month |-> "Mar", count |-> 2, rate |-> 0],
                        [month |-> "Jan", count |-> 1, rate |-> 0] >>

Unparsable(arr) == {i \in DOMAIN arr : ~DateParse(arr[i].date).valid}

\* C8: aggregateMonthly returns for every input; the records whose date is
\* unparsable all go to one bucket under the label "Invalid Date", counted
\* and rate-updated like any other bucket, and the records with a valid date
\* go to the bucket of their month.
C8_UnparsableDatesShareOneBucket ==
    call.fn = "aggregateMonthly" =>
        LET bad  == Unparsable(call.arr)
            fall == {j \in DOMAIN call.result : call.result[j].month = InvalidDate}
        IN /\ DOMAIN call.result = 1..Len(call.result)
           /\ (bad = {}) <=> (fall = {})
           /\ Cardinality(fall) <= 1
           /\ \A j \in fall :
                 /\ call.result[j].count = Cardinality(bad)
                 /\ Positions(call.arr, InvalidDate) = bad
                 /\ call.result[j].rate = LastRate(call.arr, InvalidDate)
           /\ \A i \in DOMAIN call.arr \ bad :
                 \E j \in DOMAIN call.result \ fall :
                    /\ call.result[j].month = ShortMonth[LocalMonth(DateParse(call.arr[i].date))]
                    /\ call.result[j].count =
                          Cardinality(Positions(call.arr, call.result[j].month) \ bad)

C8_Witness ==
    /\ call.fn = "aggregateMonthly"
    /\ call.arr = << [date |-> "not-a-date", rate |-> 5],
                     [date |-> "2025-01-20"],
                     [date |-> "not-a-date"] >>
    /\ call.result = << [month |-> InvalidDate, count |-> 2, rate |-> 5],
                        [month |-> "Jan", count |-> 1, rate |-> 0] >>

============================================================================
